---- MODULE Spec2Model ----
(***************************************************************************)
(* Link moderation and persistence of parsha-songs: the dual-backend store *)
(* of src/src/db.js and the HTTP handlers that drive it (the current       *)
(* server of src/unnamed/part_001 and the older src/src/server.js).        *)
(***************************************************************************)
EXTENDS Integers, Sequences, FiniteSets, TLC

VARIABLES
    usePg,      \* db.js:7  TRUE: Postgres backend, FALSE: SQLite backend
    server,     \* which server file is deployed: "current" or "legacy"
    now,        \* wall clock read by NOW() / datetime('now') / new Date()
    songs,      \* songs table: song id -> [title, external_url]
    links,      \* links table: link id -> row
    nextSong,   \* number of song ids handed out so far (ids are never reused)
    nextLink,   \* links.id sequence (SERIAL / AUTOINCREMENT)
    reqs,       \* POST /api/links requests suspended at an await
    watch,      \* what the run follows: "none", "origin", "redeem", "timed", "songs",
                \* "race", "notify", "validate", "session", "dispatch",
                \* "upgrade"
    created,    \* history: link id -> the session that created it and the status
                \* its submission's response reported
    moderated,  \* history: the links of anonymous submitters that a redemption or a
                \* moderator approve has acted on
    tokHist,    \* history: token -> its redemptions since a link was last given it
    mail,       \* the notification of the latest anonymous submission, and the
                \* response that submission got
    resp        \* the response to the latest request to a moderator route

vars == <<usePg, server, now, songs, links, nextSong, nextLink, reqs,
          watch, created, moderated, tokHist, mail, resp>>

----------------------------------------------------------------------------
(* Bounds of the model *)

MaxLinks == 2
MaxSongs == 2
MaxClock == 2
MaxRedeem == 2

(* SQL NULL for text columns, and for the timestamp columns *)
NULL == "NULL"
NoTime == 0

(* An :id path segment that is not a decimal integer, such as "abc" *)
NonNumericId == -1

Slots == {"r1", "r2"}
Titles == {"Oseh Shalom", "Am Yisrael Chai"}
Urls == {NULL, "", "https://example.org/a"}
Tokens == {"tokenA", "tokenB"}
ShortTokens == {"", "short"}
Statuses == {"pending", "approved", "rejected"}

(* The static reference dataset (data/parshiot.json) and the request targets *)
KnownParshiot == {"bereshit"}
HaftarotDiaspora(p) == IF p = "bereshit" THEN {"h-diaspora"} ELSE {}
(* match.haftarot?.[loc] with loc = "israel": the ids GET                   *)
(* /api/current-reading returns for the Israel reading                     *)
HaftarotIsrael(p) == IF p = "bereshit" THEN {"h-israel"} ELSE {}
ParashaIds == {"bereshit", "unknown"}
TargetIds == {NULL, "h-diaspora", "h-israel"}
Books == {"bereshit"}
Chapters == {1, 2}

(* `${book_id}:${chapter}` *)
TanachKey(b, c) ==
    CASE b = "bereshit" /\ c = 1 -> "bereshit:1"
      [] b = "bereshit" /\ c = 2 -> "bereshit:2"
      [] b = "shemot" /\ c = 1 -> "shemot:1"
      [] b = "shemot" /\ c = 2 -> "shemot:2"
      [] OTHER -> "other:0"

(* Request bodies that passed linkCreateSchema *)
Targets ==
    [target_kind : {"parasha", "haftarah"}, parasha_id : ParashaIds,
     target_id : TargetIds, book_id : {NULL}, chapter : {0}]
    \cup
    [target_kind : {"tanach"}, parasha_id : ParashaIds, target_id : {NULL},
     book_id : Books, chapter : Chapters]

----------------------------------------------------------------------------
(* Store statements of src/src/db.js, as functions of the tables *)

LinkIds == DOMAIN links
SongIds == DOMAIN songs

(* JS `x || null` on a text value *)
OrNull(x) == IF x = "" THEN NULL ELSE x

(* COALESCE(external_url,'') = COALESCE($2,'') *)
Coalesce(x) == IF x = NULL THEN "" ELSE x

(* The lookup of the earlier schema, by title alone *)
findSongByTitle(title, external_url) ==
    LET hits == {s \in SongIds : songs[s].title = title}
    IN  IF hits = {} THEN 0 ELSE CHOOSE s \in hits : \A o \in hits : s <= o

findSongByTitleUrl(title, external_url) ==
    LET hits == {s \in SongIds :
                    /\ songs[s].title = title
                    /\ Coalesce(songs[s].external_url) = Coalesce(OrNull(external_url))}
    IN  IF hits = {} THEN 0 ELSE CHOOSE s \in hits : \A o \in hits : s <= o

insertSong(id, title, external_url) ==
    [s \in SongIds \cup {id} |->
        IF s = id THEN [title |-> title, external_url |-> OrNull(external_url)]
        ELSE songs[s]]

(* The row insertLink writes; status, approval_token and approved_at default *)
(* to 'pending', null, null when the caller leaves them out.                 *)
LinkRow(f) ==
    [parasha_id     |-> f.parasha_id,
     target_kind    |-> f.target_kind,
     target_id      |-> f.target_id,
     song_id        |-> f.song_id,
     status         |-> f.status,
     approval_token |-> OrNull(f.approval_token),
     approved_at    |-> f.approved_at,
     added_at       |-> now]

(* Constraints the backend checks on INSERT INTO links *)
(* The links table without its foreign key *)
ForeignKeyUnchecked(row) == TRUE

(* pg: what the statement does on Postgres (TRUE) or on SQLite (FALSE) *)
ForeignKeyOkOn(pg, row) == pg => row.song_id \in SongIds

ForeignKeyOk(row) == ForeignKeyOkOn(usePg, row)

TokenUniqueOkOn(pg, row) ==
    pg => \/ row.approval_token = NULL
          \/ \A i \in LinkIds : links[i].approval_token # row.approval_token

TokenUniqueOk(row) == TokenUniqueOkOn(usePg, row)

InsertLinkOk(row) == ForeignKeyOk(row) /\ TokenUniqueOk(row)

insertLinkOn(pg, row) ==
    IF ForeignKeyOkOn(pg, row) /\ TokenUniqueOkOn(pg, row)
    THEN [i \in LinkIds \cup {nextLink} |-> IF i = nextLink THEN row ELSE links[i]]
    ELSE links

insertLink(row) ==
    IF InsertLinkOk(row)
    THEN [i \in LinkIds \cup {nextLink} |-> IF i = nextLink THEN row ELSE links[i]]
    ELSE links

(* JOIN songs s ON l.song_id = s.id *)
Joined(i) == links[i].song_id \in SongIds

(* A default filter that lets the moderation queue through instead *)
QueueStatuses == {"pending"}

DefaultStatuses == {"approved"}

(* getLinksByParasha without its status condition *)
getLinksByParashaAnyStatus(parasha_id, target_kind, statuses) ==
    {i \in LinkIds :
        /\ Joined(i)
        /\ links[i].parasha_id = parasha_id
        /\ (target_kind # NULL => links[i].target_kind = target_kind)}

getLinksByParasha(parasha_id, target_kind, statuses) ==
    {i \in LinkIds :
        /\ Joined(i)
        /\ links[i].parasha_id = parasha_id
        /\ (target_kind # NULL => links[i].target_kind = target_kind)
        /\ (statuses # {} => links[i].status \in statuses)}

getLinksByTanach(book_id, chapter, statuses) ==
    {i \in LinkIds :
        /\ Joined(i)
        /\ links[i].target_kind = "tanach"
        /\ links[i].target_id = TanachKey(book_id, chapter)
        /\ (statuses # {} => links[i].status \in statuses)}

getPendingLinks == {i \in LinkIds : Joined(i) /\ links[i].status = "pending"}

(* An ordering that puts the newest submission first instead *)
PendingOrderNewestFirst(i, j) == links[i].added_at >= links[j].added_at

(* ORDER BY l.added_at ASC: row i may stand before row j *)
PendingOrder(i, j) == links[i].added_at <= links[j].added_at

(* The row sequences getPendingLinks may return: every matching row once,  *)
(* in an order the ORDER BY clause allows (rows of equal added_at come in  *)
(* either order).                                                          *)
getPendingLinksRows ==
    {q \in [1..Cardinality(getPendingLinks) -> getPendingLinks] :
        /\ \A i \in getPendingLinks : \E k \in DOMAIN q : q[k] = i
        /\ \A a, b \in DOMAIN q : a < b => PendingOrder(q[a], q[b])}

(* The count over links of every status *)
getTotalSongsAnyStatus == Cardinality({links[i].song_id : i \in LinkIds})

getTotalSongs == Cardinality({links[i].song_id : i \in {j \in LinkIds : links[j].status = "approved"}})

(* rows[0]?.total || 0: node-postgres hands COUNT(...), a bigint, back as a *)
(* decimal string; better-sqlite3 hands it back as a number.                *)
getTotalSongsResultOn(pg) ==
    [type |-> IF pg THEN "string" ELSE "number", value |-> getTotalSongs]

----------------------------------------------------------------------------
(* UPDATE statements of the moderation state machine *)

Holders(token) == {i \in LinkIds : links[i].approval_token = token}

(* SET status = 'approved', approval_token = NULL,                         *)
(*     approved_at = COALESCE(approved_at, NOW())                          *)
(* The approve statements without `approval_token = NULL` *)
ApprovedRowKeepsToken(row) ==
    [row EXCEPT !.status = "approved",
                !.approved_at = IF row.approved_at = NoTime THEN now ELSE row.approved_at]

(* The approve statements with `approved_at = NOW()` in place of COALESCE *)
ApprovedRowRestamps(row) ==
    [row EXCEPT !.status = "approved", !.approval_token = NULL, !.approved_at = now]

ApprovedRow(row) ==
    [row EXCEPT !.status = "approved",
                !.approval_token = NULL,
                !.approved_at = IF row.approved_at = NoTime THEN now ELSE row.approved_at]

(* SET status = 'rejected', approval_token = NULL, approved_at = NULL *)
(* The reject statement putting the link back in the moderation queue *)
RejectedRowRequeues(row) ==
    [row EXCEPT !.status = "pending", !.approval_token = NULL, !.approved_at = NoTime]

(* The reject statement without `approval_token = NULL` *)
RejectedRowKeepsToken(row) ==
    [row EXCEPT !.status = "rejected", !.approved_at = NoTime]

(* The reject statement without `approved_at = NULL` *)
RejectedRowKeepsStamp(row) ==
    [row EXCEPT !.status = "rejected", !.approval_token = NULL]

RejectedRow(row) ==
    [row EXCEPT !.status = "rejected", !.approval_token = NULL, !.approved_at = NoTime]

(* approveLinkByToken without `if (!token) return null` *)
TokenMatchesUnguarded(token) == Holders(token)

(* approveLinkByToken: the rows it updates and the row it returns (0: null) *)
TokenMatches(token) == IF token = "" \/ token = NULL THEN {} ELSE Holders(token)

approveLinkByTokenRows(token) == [i \in LinkIds |-> IF i \in TokenMatches(token) THEN ApprovedRow(links[i]) ELSE links[i]]

approveLinkByTokenResultOn(pg, token) ==
    LET hit == IF pg THEN {i \in TokenMatches(token) : Joined(i)}
               ELSE TokenMatches(token)
    IN  IF hit = {} THEN 0 ELSE CHOOSE i \in hit : \A o \in hit : i <= o

approveLinkByTokenResult(token) == approveLinkByTokenResultOn(usePg, token)

IdMatches(id) == IF id = 0 THEN {} ELSE LinkIds \cap {id}

approveLinkByIdRows(id) == [i \in LinkIds |-> IF i \in IdMatches(id) THEN ApprovedRow(links[i]) ELSE links[i]]

rejectLinkByIdRows(id) == [i \in LinkIds |-> IF i \in IdMatches(id) THEN RejectedRow(links[i]) ELSE links[i]]

(* Both backends return the updated row joined with its song, or null *)
ByIdResult(id) == IF IdMatches(id) # {} /\ Joined(id) THEN id ELSE 0

(* What the by-id statements hand back. links.id is an integer column and  *)
(* the id is the text of the path segment: Postgres fails the statement    *)
(* when the text of $1 is not an integer, SQLite compares and matches no   *)
(* row.                                                                    *)
ByIdOutcomeOn(pg, id) ==
    CASE pg /\ id = NonNumericId -> "error"
      [] ByIdResult(id) = 0 -> "null"
      [] OTHER -> "row"

deleteLink(id) == [i \in LinkIds \ {id} |-> links[i]]

(* rowCount / info.changes of deleteLink *)
deleteLinkOutcomeOn(pg, id) ==
    CASE pg /\ id = NonNumericId -> "error"
      [] id \in LinkIds -> "1"
      [] OTHER -> "0"

(* deleteSong without the cascade or the child delete: the links stay *)
deleteSongLeavesLinks(id) == links

(* deleteSong: ON DELETE CASCADE on Postgres, child-delete-first on SQLite *)
deleteSongLinks(id) == [i \in {j \in LinkIds : links[j].song_id # id} |-> links[i]]

deleteSongSongs(id) == [s \in SongIds \ {id} |-> songs[s]]

(* Startup backfill of legacy rows *)
BackfillMatchesOn(pg) ==
    {i \in LinkIds :
        \/ links[i].status \notin Statuses
        \/ /\ links[i].status = "pending"
           /\ \/ links[i].approval_token = NULL
              \/ ~pg /\ links[i].approval_token = ""}

(* The backfill WHERE clause without its pending-without-token branch *)
BackfillMatchesInvalidOnly == {i \in LinkIds : links[i].status \notin Statuses}

BackfillMatches == BackfillMatchesOn(usePg)

(* A backfill that also stamps the rows it approves *)
(* A backfill that hands the rows it matches a token instead *)
BackfillRowMints(row) == [row EXCEPT !.approval_token = "tokenA"]

BackfillRowStamps(row) == [row EXCEPT !.status = "approved", !.approved_at = now]

BackfillRow(row) == [row EXCEPT !.status = "approved"]

backfill == [i \in LinkIds |-> IF i \in BackfillMatches THEN BackfillRow(links[i]) ELSE links[i]]

----------------------------------------------------------------------------
(* The program *)

Idle == [pc |-> "idle"]

(* History of one token: wins counts the redemptions that returned a link,  *)
(* after records a no-match redemption that followed a win, missed records  *)
(* a no-match redemption made while a link held the token.                  *)
Unredeemed == [wins |-> 0, after |-> FALSE, missed |-> FALSE]

Redeemed(h, held, ok) ==
    [wins   |-> IF ok /\ h.wins < MaxRedeem THEN h.wins + 1 ELSE h.wins,
     after  |-> h.after \/ (~ok /\ h.wins > 0),
     missed |-> h.missed \/ (held /\ ~ok)]

NoMail == [pc |-> "none"]

NoResp == [route |-> "none"]

(* db.js runs its top level once per process start; a fresh store is empty *)
Start(w) ==
    /\ usePg \in BOOLEAN
    /\ server \in {"current", "legacy"}
    /\ now = 1
    /\ songs = << >>
    /\ links = << >>
    /\ nextSong = 1
    /\ nextLink = 1
    /\ reqs = [r \in Slots |-> Idle]
    /\ watch = w
    /\ created = << >>
    /\ moderated = {}
    /\ tokHist = [t \in Tokens |-> Unredeemed]
    /\ mail = NoMail
    /\ resp = NoResp

(* The SQLite statements are synchronous (better-sqlite3), so a handler on  *)
(* that backend runs from its first statement to its response without      *)
(* yielding to another request; the Postgres statements are awaited I/O,   *)
(* and other requests run between them.                                    *)
InFlight == {r \in Slots : reqs[r].pc \in {"song", "link"}}

Yields(S) == usePg \/ InFlight \subseteq S

Anonymous(S) == {i \in S : i \in DOMAIN created /\ ~created[i].isAdmin}

Init == Start("none")

Keep(f, S) == [i \in (DOMAIN f) \cap S |-> f[i]]

(* Time passes *)
Tick ==
    /\ now < MaxClock
    /\ now' = now + 1
    /\ UNCHANGED <<watch, mail, resp, usePg, server, songs, links, nextSong, nextLink, reqs,
                   created, moderated, tokHist>>

(* The server file the restarted process runs: the runs that follow an     *)
(* upgrade replace the older server by the current one over the same store, *)
(* the case the schema evolution of db.js is written for.                   *)
Deployed == IF watch = "upgrade" THEN "current" ELSE server

(* The process restarts: suspended requests are gone, db.js reruns its      *)
(* schema creation and the backfill on the store the old process left.      *)
Startup ==
    /\ links' = backfill
    /\ reqs' = [r \in Slots |-> Idle]
    /\ mail' = IF mail.pc = "queued" THEN NoMail ELSE mail
    /\ server' = Deployed
    /\ UNCHANGED <<watch, resp, usePg, now, songs, nextSong, nextLink, created, moderated,
                   tokHist>>

(* POST /api/links, the portion and haftarah checks *)
(* The handler without its portion and haftarah checks *)
TargetValidAlways(t) == TRUE

TargetValid(t) ==
    t.target_kind # "tanach" =>
        /\ t.parasha_id \in KnownParshiot
        /\ t.target_kind = "haftarah" => t.target_id \in HaftarotDiaspora(t.parasha_id)

(* Target fields that keep the body's parasha_id for every kind *)
FinalTargetKeepsPortion(t) ==
    [parasha_id  |-> t.parasha_id,
     target_kind |-> t.target_kind,
     target_id   |-> CASE t.target_kind = "tanach" -> TanachKey(t.book_id, t.chapter)
                       [] t.target_kind = "haftarah" -> OrNull(t.target_id)
                       [] OTHER -> NULL]

(* POST /api/links, "Compute target fields" *)
FinalTarget(t) ==
    [parasha_id  |-> IF t.target_kind = "tanach" THEN t.book_id ELSE t.parasha_id,
     target_kind |-> t.target_kind,
     target_id   |-> CASE t.target_kind = "tanach" -> TanachKey(t.book_id, t.chapter)
                       [] t.target_kind = "haftarah" -> OrNull(t.target_id)
                       [] OTHER -> NULL]

(* The targets of the requests that pass the checks, as they are stored *)
FinalTargets == {FinalTarget(t) : t \in {u \in Targets : TargetValid(u)}}

(* The runs that follow the clock, the songs or the notifications submit   *)
(* to one target, the weekly portion, with one token value: neither the    *)
(* target nor the token value reaches a timestamp, a song row or a channel. *)
Narrow == watch \in {"timed", "songs", "race", "notify", "session", "gate"}

PlainTargets == {t \in FinalTargets : t.target_kind = "parasha"}

(* The stored targets of the submissions that name the first chapter, if   *)
(* they name a chapter                                                     *)
FirstChapterTargets ==
    {FinalTarget(t) : t \in {u \in Targets : TargetValid(u) /\ u.chapter \in {0, 1}}}

(* The runs that follow the targets submit to every chapter, the other     *)
(* runs to the first: no other chapter changes what they observe.          *)
Submitted ==
    IF Narrow \/ watch = "dispatch" THEN PlainTargets
    ELSE IF watch = "targets" THEN FinalTargets
    ELSE FirstChapterTargets

(* The runs that follow the songs submit several titles and urls; the runs *)
(* that follow concurrent submissions have two requests in flight.         *)
ActiveSlots == IF watch = "race" THEN Slots ELSE {"r1"}

SubmittedTitles == IF watch = "songs" THEN Titles ELSE {"Oseh Shalom"}

(* The second title is submitted without a url *)
SubmittedUrls(title) ==
    IF watch = "songs" /\ title = "Oseh Shalom" THEN Urls ELSE {NULL, ""}

(* const approvalToken = isAdmin ? null : crypto.randomBytes(24).toString("hex") *)
Mintable(isAdmin) == IF isAdmin THEN {NULL} ELSE Tokens

Minted(isAdmin) ==
    IF Narrow \/ watch = "validate"
    THEN Mintable(isAdmin) \cap {NULL, "tokenA"}
    ELSE Mintable(isAdmin)

(* The error of the 400 response, NULL when the request passes the checks *)
Refusal(t) ==
    CASE t.target_kind = "tanach" -> NULL
      [] t.parasha_id \notin KnownParshiot -> "unknown-parasha"
      [] t.target_kind = "haftarah" /\ t.target_id \notin HaftarotDiaspora(t.parasha_id)
            -> "haftarah-not-under-this-parasha"
      [] OTHER -> NULL

(* POST /api/links refused with 400 before it touches the store; the runs  *)
(* that follow the checks keep the response.                               *)
SubmitInvalid(r, t) ==
    /\ ~TargetValid(t)
    /\ reqs[r].pc \notin {"song", "link"}
    /\ reqs' = IF watch = "validate"
               THEN [reqs EXCEPT ![r] = [pc |-> "refused", error |-> Refusal(t)]]
               ELSE reqs
    /\ UNCHANGED <<watch, mail, resp, usePg, server, now, songs, links, nextSong, nextLink,
                   created, moderated, tokHist>>

(* POST /api/links up to the await of findSongByTitleUrl. The request's     *)
(* target and session are drawn in SubmitInsertLink, where the handler      *)
(* first uses them after the checks above.                                  *)
SubmitFind(r, title, url) ==
    /\ reqs[r].pc \in {"idle", "failed", "refused"}
    /\ Yields({})
    /\ FinalTargets # {}
    /\ LET existing == findSongByTitleUrl(title, url)
       IN  reqs' = [reqs EXCEPT ![r] =
                IF existing # 0
                THEN [pc |-> "link", song_id |-> existing]
                ELSE [pc |-> "song", title |-> title, url |-> OrNull(url)]]
    /\ UNCHANGED <<watch, mail, resp, usePg, server, now, songs, links, nextSong, nextLink,
                   created, moderated, tokHist>>

(* songId = crypto.randomUUID(); await insertSong(...) *)
SubmitInsertSong(r) ==
    /\ reqs[r].pc = "song"
    /\ nextSong <= MaxSongs
    /\ songs' = insertSong(nextSong, reqs[r].title, reqs[r].url)
    /\ nextSong' = nextSong + 1
    /\ reqs' = [reqs EXCEPT ![r] = [pc |-> "link", song_id |-> nextSong]]
    /\ UNCHANGED <<watch, mail, resp, usePg, server, now, links, nextLink, created, moderated, tokHist>>

(* The readings new Date() may have returned when the handler computed     *)
(* approvedAt: the handler reads the application's clock before it calls   *)
(* insertLink, and the store reads its own clock (DEFAULT NOW(),           *)
(* datetime('now')) when it executes the INSERT, so the store's reading is *)
(* the same instant or a later one.                                        *)
AppClock == IF watch = "timed" THEN {t \in {now - 1, now} : t >= 1} ELSE {now}

(* The fields POST /api/links hands to insertLink; approvedAt is the value *)
(* of new Date().toISOString() when the handler computed it.               *)
CurrentFields(target, song_id, isAdmin, token, approvedAt) ==
    [parasha_id     |-> target.parasha_id,
     target_kind    |-> target.target_kind,
     target_id      |-> target.target_id,
     song_id        |-> song_id,
     status         |-> IF isAdmin THEN "approved" ELSE "pending",
     approval_token |-> token,
     approved_at    |-> IF isAdmin THEN approvedAt ELSE NoTime]

LegacyFields(target, song_id, isAdmin, token, approvedAt) ==
    [parasha_id     |-> target.parasha_id,
     target_kind    |-> target.target_kind,
     target_id      |-> target.target_id,
     song_id        |-> song_id,
     status         |-> "pending",
     approval_token |-> NULL,
     approved_at    |-> NoTime]

SubmitFields(target, song_id, isAdmin, token, approvedAt) ==
    IF server = "current" THEN CurrentFields(target, song_id, isAdmin, token, approvedAt)
    ELSE LegacyFields(target, song_id, isAdmin, token, approvedAt)

(* The status field of the submission's response *)
SubmitStatus(isAdmin) ==
    IF server = "current" THEN (IF isAdmin THEN "approved" ELSE "pending") ELSE NULL

(* `if (!isAdmin)` around the call of notifyNewLink *)
(* The handler notifying for every submission *)
NotifiesAlways(isAdmin) == TRUE

Notifies(isAdmin) == ~isAdmin

(* getBaseUrl(req) *)
BaseUrl == "https://songs.example.org"

(* An approval url that carries another token than the request's *)
ApprovalUrlOfAnother(token) ==
    IF server = "current" /\ token # NULL
    THEN <<BaseUrl, "/api/links/approve/", CHOOSE k \in Tokens : k # token>>
    ELSE << >>

(* The payload's approval_url, `${baseUrl}/api/links/approve/${approvalToken}` *)
(* as the sequence of its parts; the older server's payload has none.        *)
ApprovalUrl(token) ==
    IF server = "current" /\ token # NULL
    THEN <<BaseUrl, "/api/links/approve/", token>>
    ELSE << >>

(* req.params.token of GET /api/links/approve/:token for that url *)
UrlToken(url) == url[3]

(* The runs that keep the notification, and those that keep who created a   *)
(* link                                                                     *)
KeepsMail == watch \in {"notify", "dispatch"}

KeepsCreated == watch \in {"origin", "dispatch"}

(* insertLink threw: the handler ends without a response *)
Failed(row) ==
    [pc |-> "failed", error |-> IF ForeignKeyOk(row) THEN "unique" ELSE "foreign-key"]

(* POST /api/links from insertLink to the response; token is the outcome of *)
(* crypto.randomBytes(24).toString("hex").                                  *)
SubmitInsertLink(r, target, isAdmin, token) ==
    \E approvedAt \in AppClock :
    LET row == LinkRow(SubmitFields(target, reqs[r].song_id, isAdmin, token, approvedAt))
    IN  /\ reqs[r].pc = "link"
        /\ nextLink <= MaxLinks
        /\ links' = insertLink(row)
        /\ nextLink' = IF usePg \/ InsertLinkOk(row) THEN nextLink + 1 ELSE nextLink
        /\ reqs' = [reqs EXCEPT ![r] = IF InsertLinkOk(row) THEN Idle ELSE Failed(row)]
        /\ IF InsertLinkOk(row) /\ KeepsCreated
           THEN created' = [i \in DOMAIN created \cup {nextLink} |->
                                IF i = nextLink
                                THEN [isAdmin  |-> isAdmin,
                                      status   |-> SubmitStatus(isAdmin),
                                      notified |-> IF Notifies(isAdmin) THEN 1 ELSE 0]
                                ELSE created[i]]
           ELSE UNCHANGED created
        /\ IF InsertLinkOk(row) /\ watch = "redeem"
           THEN tokHist' = [t2 \in Tokens |->
                                IF t2 = row.approval_token THEN Unredeemed ELSE tokHist[t2]]
           ELSE UNCHANGED tokHist
        /\ mail' = IF InsertLinkOk(row) /\ Notifies(isAdmin) /\ KeepsMail
                   THEN [pc |-> "queued", link_id |-> nextLink,
                         status |-> SubmitStatus(isAdmin),
                         approval_url |-> ApprovalUrl(token)]
                   ELSE mail
        /\ UNCHANGED <<watch, resp, usePg, server, now, songs, nextSong, moderated>>

(* notifyNewLink. cfg: which of NOTIFY_WEBHOOK, NOTIFY_EMAIL, BREVO_API_KEY *)
(* and the SMTP transporter are set; out: what each channel does when it   *)
(* is called. fetch resolves on an HTTP error response and rejects on a    *)
(* network error.                                                          *)
FetchOutcomes == {"ok", "http-error", "throws"}

Configs ==
    [webhook : BOOLEAN, notifyEmail : BOOLEAN, brevoApiKey : BOOLEAN,
     mailTransporter : BOOLEAN]

Outcomes == [webhook : FetchOutcomes, brevo : FetchOutcomes, smtp : {"ok", "throws"}]

(* 1) webhook: `webhook && !brevoApiKey && !mailTransporter` in the current *)
(* server, `webhook` in the older one; delivered as soon as fetch resolves  *)
UsesWebhook(cfg) ==
    IF server = "current"
    THEN cfg.webhook /\ ~cfg.brevoApiKey /\ ~cfg.mailTransporter
    ELSE cfg.webhook

WebhookDone(cfg, out) == UsesWebhook(cfg) /\ out.webhook # "throws"

(* 2) Brevo API: !response.ok throws inside the try *)
UsesBrevo(cfg, out) == ~WebhookDone(cfg, out) /\ cfg.brevoApiKey /\ cfg.notifyEmail

BrevoDone(cfg, out) == UsesBrevo(cfg, out) /\ out.brevo = "ok"

(* 3) SMTP *)
(* The SMTP step without its `!delivered` condition *)
UsesSmtpAlways(cfg, out) == cfg.mailTransporter /\ cfg.notifyEmail

UsesSmtp(cfg, out) ==
    /\ ~WebhookDone(cfg, out)
    /\ ~BrevoDone(cfg, out)
    /\ cfg.mailTransporter
    /\ cfg.notifyEmail

SmtpDone(cfg, out) == UsesSmtp(cfg, out) /\ out.smtp = "ok"

(* The channels that took the event *)
Reached(cfg, out) ==
    {c \in {"webhook"} : UsesWebhook(cfg) /\ out.webhook = "ok"}
    \cup {c \in {"brevo"} : BrevoDone(cfg, out)}
    \cup {c \in {"smtp"} : SmtpDone(cfg, out)}

(* The channels after which the function stops: `delivered = true` in the  *)
(* current server, `return` in the older one                              *)
Delivered(cfg, out) ==
    {c \in {"webhook"} : WebhookDone(cfg, out)}
    \cup {c \in {"brevo"} : BrevoDone(cfg, out)}
    \cup {c \in {"smtp"} : SmtpDone(cfg, out)}

(* The last step: console.log of the payload unless a channel delivered *)
Logged(cfg, out) == Delivered(cfg, out) = {}

(* The calls the function makes, in the order of its statements *)
Attempts(cfg, out) ==
    (IF UsesWebhook(cfg) THEN <<"webhook">> ELSE << >>)
    \o (IF UsesBrevo(cfg, out) THEN <<"brevo">> ELSE << >>)
    \o (IF UsesSmtp(cfg, out) THEN <<"smtp">> ELSE << >>)
    \o (IF Logged(cfg, out) THEN <<"log">> ELSE << >>)

(* notifyNewLink without its try/catch blocks: a channel that throws ends it *)
notifyNewLinkUncaught(cfg, out) ==
    LET threw == \/ UsesWebhook(cfg) /\ out.webhook = "throws"
                 \/ UsesBrevo(cfg, out) /\ out.brevo # "ok"
                 \/ UsesSmtp(cfg, out) /\ out.smtp = "throws"
    IN  [raised    |-> threw,
         attempts  |-> Attempts(cfg, out),
         delivered |-> Delivered(cfg, out),
         reached   |-> Reached(cfg, out),
         logged    |-> FALSE]

(* Every channel call sits in a try/catch that logs the error and goes on; *)
(* the last step logs the payload unless a channel was marked delivered.   *)
notifyNewLink(cfg, out) ==
    [raised    |-> FALSE,
     attempts  |-> Attempts(cfg, out),
     delivered |-> Delivered(cfg, out),
     reached   |-> Reached(cfg, out),
     logged    |-> Logged(cfg, out)]

(* The runs that do not follow notifications draw one configuration *)
DrawnConfigs == IF watch = "notify" THEN Configs ELSE {c \in Configs : ~c.webhook /\ ~c.notifyEmail /\ ~c.brevoApiKey /\ ~c.mailTransporter}

DrawnOutcomes == IF watch = "notify" THEN Outcomes ELSE {o \in Outcomes : o.webhook = "ok" /\ o.brevo = "ok" /\ o.smtp = "ok"}

(* The notification dispatched by POST /api/links runs to its end. The     *)
(* handler does not await it and has sent its response already.            *)
NotifyNewLink(cfg, out) ==
    /\ Yields({})
    /\ IF KeepsMail
       THEN /\ mail.pc = "queued"
            /\ mail' = [pc        |-> "done",
                        link_id   |-> mail.link_id,
                        status    |-> mail.status,
                        approval_url |-> mail.approval_url,
                        raised    |-> notifyNewLink(cfg, out).raised,
                        attempts  |-> notifyNewLink(cfg, out).attempts,
                        delivered |-> notifyNewLink(cfg, out).delivered,
                        reached   |-> notifyNewLink(cfg, out).reached,
                        logged    |-> notifyNewLink(cfg, out).logged]
       ELSE UNCHANGED mail
    /\ UNCHANGED <<watch, resp, usePg, server, now, songs, links, nextSong, nextLink, reqs,
                   created, moderated, tokHist>>

(* token.length < 10 in GET /api/links/approve/:token; minted tokens are 48 *)
(* hex characters.                                                          *)
TooShort(token) == token \in ShortTokens

(* The status of the response of GET /api/links/approve/:token: 400 for a  *)
(* token the handler turns away, 404 when approveLinkByToken returns null, *)
(* 200 with the approval page otherwise.                                   *)
RedeemStatus(token) ==
    CASE TooShort(token) -> 400
      [] approveLinkByTokenResult(token) = 0 -> 404
      [] OTHER -> 200

RedeemResponded(token) ==
    IF watch # "gate" THEN resp
    ELSE [route |-> "redeem", token |-> token, status |-> RedeemStatus(token)]

(* GET /api/links/approve/:token *)
RedeemToken(token) ==
    /\ server = "current"
    /\ Yields({})
    /\ IF TooShort(token)
       THEN UNCHANGED <<links, moderated, tokHist>>
       ELSE /\ links' = approveLinkByTokenRows(token)
            /\ moderated' = moderated \cup Anonymous(TokenMatches(token))
            /\ tokHist' = IF watch # "redeem" THEN tokHist
                          ELSE [tokHist EXCEPT ![token] =
                                  Redeemed(@, Holders(token) # {},
                                           approveLinkByTokenResult(token) # 0)]
    /\ resp' = RedeemResponded(token)
    /\ UNCHANGED <<watch, mail, usePg, server, now, songs, nextSong, nextLink, reqs, created>>

(* requireAdmin *)
(* The routes without the session check *)
requireNothing(isAdmin) == TRUE

requireAdmin(isAdmin) == isAdmin

(* The status of the response of a moderator route: 401 from requireAdmin,  *)
(* otherwise what the handler answers for the outcome of its store call.    *)
Responded(route, isAdmin, outcome) ==
    IF watch # "session" THEN resp
    ELSE [route   |-> route,
          isAdmin |-> isAdmin,
          status  |-> CASE ~requireAdmin(isAdmin) -> 401
                        [] outcome = "error" -> 500
                        [] outcome = "null" -> 404
                        [] OTHER -> 200]

(* POST /api/admin/links/:id/approve *)
AdminApprove(id, isAdmin) ==
    /\ server = "current"
    /\ Yields({})
    /\ IF ~requireAdmin(isAdmin) THEN UNCHANGED <<links, moderated>>
       ELSE /\ links' = approveLinkByIdRows(id)
            /\ moderated' = moderated \cup Anonymous(IdMatches(id))
    /\ resp' = Responded("approve", isAdmin, ByIdOutcomeOn(usePg, id))
    /\ UNCHANGED <<watch, mail, usePg, server, now, songs, nextSong, nextLink, reqs, created,
                   tokHist>>

(* POST /api/admin/links/:id/reject *)
AdminReject(id, isAdmin) ==
    /\ server = "current"
    /\ Yields({})
    /\ IF ~requireAdmin(isAdmin) THEN UNCHANGED links
       ELSE links' = rejectLinkByIdRows(id)
    /\ resp' = Responded("reject", isAdmin, ByIdOutcomeOn(usePg, id))
    /\ UNCHANGED <<watch, mail, usePg, server, now, songs, nextSong, nextLink, reqs, created,
                   moderated, tokHist>>

(* DELETE /api/links/:id *)
DeleteLink(id, isAdmin) ==
    /\ Yields({})
    /\ IF ~requireAdmin(isAdmin) THEN UNCHANGED <<links, created, moderated>>
       ELSE /\ links' = deleteLink(id)
            /\ created' = Keep(created, DOMAIN links')
            /\ moderated' = moderated \cap DOMAIN links'
    /\ resp' = Responded("delete-link", isAdmin, deleteLinkOutcomeOn(usePg, id))
    /\ UNCHANGED <<watch, mail, usePg, server, now, songs, nextSong, nextLink, reqs, tokHist>>

(* DELETE /api/songs/:id *)
DeleteSong(id, isAdmin) ==
    /\ Yields({})
    /\ IF ~requireAdmin(isAdmin) THEN UNCHANGED <<songs, links, created, moderated>>
       ELSE /\ songs' = deleteSongSongs(id)
            /\ links' = deleteSongLinks(id)
            /\ created' = Keep(created, DOMAIN links')
            /\ moderated' = moderated \cap DOMAIN links'
    /\ resp' = Responded("delete-song", isAdmin, "deleted")
    /\ UNCHANGED <<watch, mail, usePg, server, now, nextSong, nextLink, reqs, tokHist>>

(* GET /api/admin/links/pending *)
AdminPending(isAdmin) ==
    /\ server = "current"
    /\ Yields({})
    /\ resp' = Responded("pending", isAdmin, "rows")
    /\ UNCHANGED <<watch, mail, usePg, server, now, songs, links, nextSong, nextLink, reqs,
                   created, moderated, tokHist>>

(* The :id values of the link routes *)
RouteIds == 1..MaxLinks \cup {NonNumericId}

Next ==
    \/ Startup
    \/ \E r \in ActiveSlots, t \in Targets : SubmitInvalid(r, t)
    \/ \E r \in ActiveSlots, title \in SubmittedTitles :
          \E url \in SubmittedUrls(title) : SubmitFind(r, title, url)
    \/ \E r \in ActiveSlots : SubmitInsertSong(r)
    \/ \E r \in ActiveSlots, target \in Submitted, a \in BOOLEAN :
          \E token \in Minted(a) : SubmitInsertLink(r, target, a, token)
    \/ \E token \in Tokens \cup ShortTokens : RedeemToken(token)
    \/ \E id \in RouteIds, a \in BOOLEAN : AdminApprove(id, a)
    \/ \E id \in RouteIds, a \in BOOLEAN : AdminReject(id, a)
    \/ \E id \in RouteIds, a \in BOOLEAN : DeleteLink(id, a)
    \/ \E id \in 1..MaxSongs, a \in BOOLEAN : DeleteSong(id, a)
    \/ \E a \in BOOLEAN : AdminPending(a)
    \/ \E cfg \in DrawnConfigs, out \in DrawnOutcomes : NotifyNewLink(cfg, out)

Spec == Init /\ [][Next]_vars

(* The program with the clock running *)
SpecTimed == Start("timed") /\ [][Next \/ Tick]_vars

(* The program with the responses of the token route *)
SpecGate == Start("gate") /\ [][Next]_vars

(* The program with submissions to every chapter *)
SpecTargets == Start("targets") /\ [][Next]_vars

(* The program with submissions of several titles and urls *)
SpecSongs == Start("songs") /\ [][Next]_vars

(* The program with two submissions in flight *)
SpecRace == Start("race") /\ [][Next]_vars

(* The program with the responses of refused submissions *)
SpecValidate == Start("validate") /\ [][Next]_vars

(* The program with the responses of the moderator routes *)
SpecSession == Start("session") /\ [][Next]_vars

(* The program with who created each link and the notification dispatched  *)
(* for it                                                                  *)
SpecDispatch == Start("dispatch") /\ [][Next]_vars

(* The program upgraded from the older server to the current one *)
SpecUpgrade == Start("upgrade") /\ [][Next]_vars

(* The program with the notifications of new submissions *)
SpecNotify == Start("notify") /\ [][Next]_vars

(* The program with the history of who created each link and what moderated it *)
SpecOrigin == Start("origin") /\ [][Next]_vars

(* The program with the history of each token's redemptions *)
SpecRedeem == Start("redeem") /\ [][Next]_vars

----------------------------------------------------------------------------
(* What the public reads return: GET /api/links and GET /api/links-tanach   *)
(* call the store with the default status filter.                           *)

ReadKeys == ParashaIds \cup Books

(* The book_id and chapter values of GET /api/links-tanach *)
ReadBooks == Books \cup {"shemot"}
ReadChapters == Chapters
ReadKinds == {NULL, "parasha", "haftarah", "tanach"}

PublicLinks ==
    UNION {getLinksByParasha(p, k, DefaultStatuses) : p \in ReadKeys, k \in ReadKinds}
    \cup UNION {getLinksByTanach(b, c, DefaultStatuses) : b \in Books, c \in Chapters}

----------------------------------------------------------------------------
(* Claims *)

(* C1: token redemption is single-use. Of the redemptions of one token made *)
(* since a link was last given that token, in any order and interleaved     *)
(* with every other operation, at most one returns a link; a redemption     *)
(* made while a link holds the token returns it, every other returns the    *)
(* no-match outcome. Never two successes.                                   *)
C1_SingleUse ==
    \A t \in Tokens : tokHist[t].wins <= 1 /\ ~tokHist[t].missed

(* A token redeemed twice: one success, then a no-match *)
C1_Witness ==
    \E t \in Tokens : tokHist[t].wins = 1 /\ tokHist[t].after

(* C2: a link created by a valid submission is pending with a freshly       *)
(* minted token when the submitter holds no moderator session, approved     *)
(* with approved_at set and no token when the submitter holds one, and the  *)
(* status the response reports is the persisted status.                     *)
C2_SubmissionStatus ==
    [][\A i \in (DOMAIN links') \ LinkIds :
          i \in DOMAIN created' =>
             /\ created'[i].status = links'[i].status
             /\ IF created'[i].isAdmin
                THEN /\ links'[i].status = "approved"
                     /\ links'[i].approved_at # NoTime
                     /\ links'[i].approval_token = NULL
                ELSE /\ links'[i].status = "pending"
                     /\ links'[i].approval_token # NULL]_vars

(* C3: unmoderated content is never publicly visible. A link created by a   *)
(* submitter without a moderator session is returned by the default-filter  *)
(* reads only if a token redemption or a moderator approve acted on it,     *)
(* also after the process restarted and reran the backfill.                 *)
C3_UnmoderatedHidden ==
    \A i \in PublicLinks \cap Anonymous(LinkIds) : i \in moderated

(* C4: getLinksByParasha and getLinksByTanach with the default status       *)
(* filter return only approved links, for every key and store content.      *)
C4_DefaultReadsApproved ==
    /\ \A p \in ReadKeys, k \in ReadKinds :
          \A i \in getLinksByParasha(p, k, DefaultStatuses) : links[i].status = "approved"
    /\ \A b \in Books, c \in Chapters :
          \A i \in getLinksByTanach(b, c, DefaultStatuses) : links[i].status = "approved"

(* A default read that returns a link and leaves out a pending or rejected  *)
(* link of the same key                                                     *)
C4_Witness ==
    \/ \E p \in ReadKeys :
          /\ getLinksByParasha(p, NULL, DefaultStatuses) # {}
          /\ getLinksByParasha(p, NULL, {}) # getLinksByParasha(p, NULL, DefaultStatuses)
    \/ \E b \in Books, c \in Chapters :
          /\ getLinksByTanach(b, c, DefaultStatuses) # {}
          /\ getLinksByTanach(b, c, {}) # getLinksByTanach(b, c, DefaultStatuses)

(* C5: on both backends at most one link holds a given non-null             *)
(* approval_token.                                                          *)
C5_TokenUnique ==
    \A i, j \in LinkIds :
       (i # j /\ links[i].approval_token # NULL) =>
           links[i].approval_token # links[j].approval_token

(* C6: a link that holds a non-null approval_token has status pending;      *)
(* approved and rejected links carry no token.                              *)
C6_TokenOnlyWhilePending ==
    \A i \in LinkIds : links[i].approval_token # NULL => links[i].status = "pending"

(* An anonymous submission, minted with a token, that was approved, while   *)
(* another link still holds a token                                         *)
C6_Witness ==
    /\ \E i \in moderated : links[i].status = "approved" /\ links[i].approval_token = NULL
    /\ \E j \in LinkIds : links[j].approval_token # NULL

(* C7: rejected is terminal. No operation changes the status of a rejected  *)
(* link.                                                                    *)
C7_RejectedTerminal ==
    [][\A i \in LinkIds \cap DOMAIN links' :
          links[i].status = "rejected" => links'[i].status = "rejected"]_vars

(* C8: no operation moves a link back to pending. A link that is approved   *)
(* or rejected never becomes pending again, and a new row never takes the   *)
(* id of an older one.                                                      *)
C8_NeverBackToPending ==
    [][/\ \A i \in LinkIds \cap DOMAIN links' :
             links[i].status # "pending" => links'[i].status # "pending"
       /\ \A i \in (DOMAIN links') \ LinkIds : i >= nextLink]_vars

(* A link that was pending, was approved, and has since been rejected *)
C8_Witness ==
    \E i \in moderated : links[i].status = "rejected"

(* C9: a link enters rejected only from pending; rejecting an approved link *)
(* does not turn it into rejected.                                          *)
C9_RejectOnlyFromPending ==
    [][\A i \in LinkIds \cap DOMAIN links' :
          (links'[i].status = "rejected" /\ links[i].status # "rejected")
             => links[i].status = "pending"]_vars

(* C10: every link with status approved has a non-null approved_at,         *)
(* however it became approved.                                              *)
C10_ApprovedHasTimestamp ==
    \A i \in LinkIds : links[i].status = "approved" => links[i].approved_at # NoTime

(* C11: approved_at is set once. No operation changes an approved_at that   *)
(* is set, except a reject, which clears it: approving by id or by token a  *)
(* link that already has approved_at leaves its approved_at unchanged, and  *)
(* approveLinkById on an approved link changes nothing of it, whatever the  *)
(* clock reads by then.                                                     *)
C11_ApprovedAtSetOnce ==
    [][/\ \A i \in LinkIds \cap DOMAIN links' :
             links[i].approved_at # NoTime =>
                \/ links'[i].approved_at = links[i].approved_at
                \/ links'[i].approved_at = NoTime /\ links'[i].status = "rejected"
       /\ \A i \in LinkIds :
             (links[i].status = "approved" /\ links[i].approved_at # NoTime) =>
                approveLinkByIdRows(i) = links]_vars

(* An approved link whose approved_at is older than the clock: approving it *)
(* again at this time would show a change if approved_at were rewritten     *)
C11_Witness ==
    \E i \in LinkIds :
       /\ links[i].status = "approved"
       /\ links[i].approved_at # NoTime
       /\ links[i].approved_at < now

(* C12: a link never outlives its song. On both backends every link's       *)
(* song_id is the id of an existing song, also when a submission that has   *)
(* resolved its song id meets a deleteSong of that song before its          *)
(* insertLink runs.                                                         *)
C12_LinkHasSong ==
    \A i \in LinkIds : links[i].song_id \in SongIds

(* A submission whose song was deleted under it: its insertLink was refused *)
C12_Witness ==
    \E r \in Slots : reqs[r].pc = "failed" /\ reqs[r].error = "foreign-key"

(* C13: deleteSong(id) removes the song and every link whose song_id is id  *)
(* and nothing else; deleteLink(id) removes only that link and leaves its   *)
(* song and the song's other links unchanged.                               *)
C13_DeleteFrame ==
    [][(DOMAIN songs' # SongIds \/ DOMAIN links' # LinkIds) =>
          /\ \A id \in 1..MaxSongs :
                DeleteSong(id, TRUE) =>
                   /\ DOMAIN songs' = SongIds \ {id}
                   /\ \A s \in DOMAIN songs' : songs'[s] = songs[s]
                   /\ DOMAIN links' = {i \in LinkIds : links[i].song_id # id}
                   /\ \A i \in DOMAIN links' : links'[i] = links[i]
          /\ \A id \in 1..MaxLinks :
                DeleteLink(id, TRUE) =>
                   /\ songs' = songs
                   /\ DOMAIN links' = LinkIds \ {id}
                   /\ \A i \in DOMAIN links' : links'[i] = links[i]]_vars

(* A song and a link have been deleted, and another song with its link is   *)
(* still there                                                              *)
C13_Witness ==
    /\ ~usePg
    /\ Cardinality(SongIds) < nextSong - 1
    /\ Cardinality(LinkIds) < nextLink - 1
    /\ \E i \in LinkIds : Joined(i)

(* C14: no two song rows share the same (title, external_url) pair, also    *)
(* when concurrent submissions of the same pair interleave.                 *)
C14_SongPairUnique ==
    \A s, o \in SongIds :
       (songs[s].title = songs[o].title /\ songs[s].external_url = songs[o].external_url)
          => s = o

(* The same (title, url) pair, an absent and an empty url being equal *)
NoUrl(u) == u = NULL \/ u = ""

SamePair(s, title, url) ==
    /\ songs[s].title = title
    /\ songs[s].external_url = url \/ (NoUrl(songs[s].external_url) /\ NoUrl(url))

ApprovedOf(s) == {i \in LinkIds : links[i].status = "approved" /\ links[i].song_id = s}

CountedSongs == {s \in 1..nextSong : ApprovedOf(s) # {}}

(* C16: getTotalSongs() equals the number of distinct song_id values among  *)
(* approved links: creating a pending link leaves the count unchanged, and  *)
(* rejecting or deleting a song's only approved link decreases it by one.   *)
C16_TotalSongs ==
    [][/\ getTotalSongs = Cardinality(CountedSongs)
       /\ getTotalSongs' = Cardinality(CountedSongs')
       /\ \A i \in (DOMAIN links') \ LinkIds :
             links'[i].status = "pending" => getTotalSongs' = getTotalSongs
       /\ \A i \in LinkIds :
             (/\ ApprovedOf(links[i].song_id) = {i}
              /\ i \in DOMAIN links' => links'[i].status = "rejected")
                => getTotalSongs' = getTotalSongs - 1]_vars

(* One song is counted while a pending link refers to a song that has no    *)
(* approved link                                                            *)
C16_Witness ==
    /\ getTotalSongs = 1
    /\ \E i \in LinkIds : links[i].status = "pending" /\ ApprovedOf(links[i].song_id) = {}

(* Rows a caller may hand to insertLink *)
GatewayRows ==
    {LinkRow(CurrentFields(t, s, FALSE, k, now)) :
        t \in PlainTargets, s \in 1..MaxSongs, k \in Tokens \cup {NULL}}

(* C17: the SQLite and the Postgres gateways are equivalent. From the same  *)
(* content, every gateway operation returns the same result and leaves the  *)
(* same content on both: here insertLink of any row, the startup backfill,  *)
(* approveLinkByToken and getTotalSongs, from every reachable content.      *)
C17_BackendsAgree ==
    /\ \A row \in GatewayRows : insertLinkOn(TRUE, row) = insertLinkOn(FALSE, row)
    /\ BackfillMatchesOn(TRUE) = BackfillMatchesOn(FALSE)
    /\ \A k \in Tokens :
          approveLinkByTokenResultOn(TRUE, k) = approveLinkByTokenResultOn(FALSE, k)
    /\ getTotalSongsResultOn(TRUE) = getTotalSongsResultOn(FALSE)

(* A row without a token *)
NoToken(row) == row.approval_token = NULL \/ row.approval_token = ""

(* C18: after startup every link row has a status in {pending, approved,    *)
(* rejected} and every pending row holds a token: each row whose status was *)
(* missing, empty or invalid, or that was pending without a token, now has  *)
(* status approved, and no row was added or removed.                        *)
C18_StartupNormalises ==
    [][Startup =>
          /\ DOMAIN links' = LinkIds
          /\ \A i \in LinkIds :
                /\ links'[i].status \in Statuses
                /\ links'[i].status = "pending" => ~NoToken(links'[i])
                /\ (\/ links[i].status \notin Statuses
                    \/ links[i].status = "pending" /\ NoToken(links[i]))
                      => links'[i].status = "approved"]_vars

(* A row the backfill approved: approved without ever being given an        *)
(* approved_at                                                              *)
C18_Witness ==
    \E i \in LinkIds :
       /\ links[i].status = "approved"
       /\ links[i].approved_at = NoTime
       /\ NoToken(links[i])

C20_NeverSilentlyLost ==
    mail.pc = "done" => (mail.reached # {} \/ mail.logged)

(* The place of a channel in the priority order *)
ChannelRank(c) ==
    CASE c = "webhook" -> 1 [] c = "brevo" -> 2 [] c = "smtp" -> 3 [] OTHER -> 4

(* C21: within one notify call the channels are attempted in the order      *)
(* webhook, transactional email API, SMTP, log; no channel is attempted     *)
(* after the first one that succeeds, so at most one channel delivers the   *)
(* event, and SMTP is attempted only when every earlier channel was not     *)
(* attempted or failed.                                                     *)
C21_ChannelOrder ==
    mail.pc = "done" =>
       /\ \A i, j \in 1..Len(mail.attempts) :
             i < j => ChannelRank(mail.attempts[i]) < ChannelRank(mail.attempts[j])
       /\ \A i \in 1..Len(mail.attempts) :
             mail.attempts[i] \in mail.delivered => i = Len(mail.attempts)
       /\ Cardinality(mail.delivered) <= 1
       /\ Cardinality(mail.reached) <= 1
       /\ \A j \in 1..Len(mail.attempts) :
             mail.attempts[j] = "smtp" =>
                \A i \in 1..(j - 1) : mail.attempts[i] \notin mail.delivered

(* The webhook and the email API were attempted and failed, then SMTP took  *)
(* the event                                                                *)
C21_Witness ==
    /\ mail.pc = "done"
    /\ mail.attempts = <<"webhook", "brevo", "smtp">>
    /\ mail.reached = {"smtp"}

(* C22: a parasha or haftarah submission that names a portion outside the   *)
(* reference dataset, and a haftarah submission whose target id is not one  *)
(* of its portion's haftarah ids, is refused and persists neither a song    *)
(* nor a link, so no stored link names such a target; a tanach submission   *)
(* is never refused, whatever portion it names.                             *)
C22_InvalidTargetRefused ==
    [][/\ \A t \in Targets :
             /\ (t.target_kind # "tanach" /\ t.parasha_id \notin KnownParshiot)
                   => ~TargetValid(t) /\ Refusal(t) # NULL
             /\ (t.target_kind = "haftarah"
                   /\ t.target_id \notin HaftarotDiaspora(t.parasha_id))
                   => ~TargetValid(t) /\ Refusal(t) # NULL
             /\ t.target_kind = "tanach" => TargetValid(t) /\ Refusal(t) = NULL
       /\ \A r \in Slots :
             (reqs'[r] # reqs[r] /\ reqs'[r].pc = "refused") =>
                /\ songs' = songs
                /\ links' = links
                /\ reqs'[r].error # NULL
       /\ \A i \in DOMAIN links' :
             links'[i].target_kind # "tanach" =>
                /\ links'[i].parasha_id \in KnownParshiot
                /\ links'[i].target_kind = "haftarah" =>
                      links'[i].target_id \in HaftarotDiaspora(links'[i].parasha_id)]_vars

(* A haftarah submission was refused for its target id after a tanach link  *)
(* and a haftarah link had been stored                                      *)
C22_Witness ==
    /\ \E r \in Slots :
          reqs[r].pc = "refused" /\ reqs[r].error = "haftarah-not-under-this-parasha"
    /\ \E i \in LinkIds : links[i].target_kind = "tanach"
    /\ \E i \in LinkIds : links[i].target_kind = "haftarah"
    /\ \E t \in Targets :
          t.target_kind = "tanach" /\ t.parasha_id \notin KnownParshiot /\ TargetValid(t)

(* C23: approveLinkById, rejectLinkById and deleteLink applied to an id     *)
(* that matches no link return the not-found signal (no row, zero rows)     *)
(* rather than an error, on either backend, and leave every link unchanged. *)
C23_NotFoundSignal ==
    \A id \in RouteIds, pg \in BOOLEAN :
       id \notin LinkIds =>
          /\ ByIdOutcomeOn(pg, id) = "null"
          /\ deleteLinkOutcomeOn(pg, id) = "0"
          /\ approveLinkByIdRows(id) = links
          /\ rejectLinkByIdRows(id) = links
          /\ deleteLink(id) = links

(* The default-filter reads of the key a link was submitted under *)
ReadsOfKey(i) ==
    IF links[i].target_kind = "tanach"
    THEN UNION {getLinksByTanach(b, c, DefaultStatuses) :
                   b \in {x \in Books : \E y \in Chapters :
                                           TanachKey(x, y) = links[i].target_id},
                   c \in {y \in Chapters : \E x \in Books :
                                           TanachKey(x, y) = links[i].target_id}}
    ELSE getLinksByParasha(links[i].parasha_id, links[i].target_kind, DefaultStatuses)
         \cap getLinksByParasha(links[i].parasha_id, NULL, DefaultStatuses)

(* An approved link without a token that the reads of its key return, with *)
(* the title and url of its song                                           *)
Published(i) ==
    /\ i \in LinkIds
    /\ links[i].status = "approved"
    /\ links[i].approval_token = NULL
    /\ links[i].song_id \in SongIds
    /\ i \in ReadsOfKey(i)

(* C24: after the token of an anonymous submission is redeemed, its link is *)
(* approved with the token cleared and the default-filter reads of its key  *)
(* return it, joined with its song, in every later state until the link is  *)
(* rejected or deleted.                                                     *)
C24_RedeemedStaysVisible ==
    [][links' # links =>
          /\ \A token \in Tokens :
                RedeemToken(token) =>
                   \A i \in TokenMatches(token) : Published(i)'
          /\ \A i \in LinkIds :
                Published(i) =>
                   \/ i \notin DOMAIN links'
                   \/ links'[i].status = "rejected"
                   \/ Published(i)']_vars

(* The only link ever submitted was approved by a redemption of its token   *)
(* and the reads of its key return it                                       *)
C24_Witness ==
    /\ nextLink = 2
    /\ \E t \in Tokens : tokHist[t].wins = 1
    /\ Published(1)

(* C25: a submission whose song title matches an existing song and that     *)
(* provides a url is linked to that song, and the song's stored             *)
(* external_url becomes the submitted url while its title stays.            *)
C25_UrlUpdated ==
    [][reqs' # reqs =>
          \A r \in Slots, title \in Titles, url \in Urls :
             (/\ SubmitFind(r, title, url)
              /\ ~NoUrl(url)
              /\ \E s \in SongIds : songs[s].title = title)
                => \E s \in SongIds :
                      /\ songs[s].title = title
                      /\ reqs'[r] = [pc |-> "link", song_id |-> s]
                      /\ songs'[s].title = title
                      /\ songs'[s].external_url = url]_vars

(* C26: after rejectLinkById succeeds on a link, the link has status        *)
(* rejected, no approval_token and no approved_at; so a rejected link never *)
(* has a token or an approved_at, also when approve and reject calls on the *)
(* same link interleave.                                                    *)
C26_RejectClears ==
    [][links' # links =>
          /\ \A id \in LinkIds :
                AdminReject(id, TRUE) =>
                   /\ links'[id].status = "rejected"
                   /\ links'[id].approval_token = NULL
                   /\ links'[id].approved_at = NoTime
          /\ \A i \in DOMAIN links' :
                links'[i].status = "rejected" =>
                   /\ links'[i].approval_token = NULL
                   /\ links'[i].approved_at = NoTime]_vars

(* A moderator's own submission, approved with approved_at at creation, has *)
(* been rejected and has lost its approved_at                               *)
C26_Witness ==
    \E i \in LinkIds \cap DOMAIN created :
       /\ created[i].isAdmin
       /\ created[i].status = "approved"
       /\ links[i].status = "rejected"
       /\ links[i].approved_at = NoTime
       /\ links[i].approval_token = NULL

(* C27: a rejected link cannot be re-opened by its token. Once a pending    *)
(* link has been rejected, redeeming the token it held leaves that link as  *)
(* it is, and, unless another link has been given the same token value,     *)
(* returns the no-match outcome and changes no link.                        *)
C27_RejectedNotReopened ==
    [][links' # links =>
          /\ \A id \in LinkIds :
                (/\ links[id].status = "pending"
                 /\ links[id].approval_token \in Tokens
                 /\ AdminReject(id, TRUE))
                   => /\ links'[id].status = "rejected"
                      /\ approveLinkByTokenRows(links[id].approval_token)'[id] = links'[id]
                      /\ Holders(links[id].approval_token) = {id} =>
                            /\ approveLinkByTokenResult(links[id].approval_token)' = 0
                            /\ approveLinkByTokenRows(links[id].approval_token)' = links'
          /\ \A t \in Tokens :
                /\ \A i \in DOMAIN links' :
                      links'[i].status = "rejected" =>
                         approveLinkByTokenRows(t)'[i] = links'[i]
                /\ Holders(t)' = {} =>
                      /\ approveLinkByTokenResult(t)' = 0
                      /\ approveLinkByTokenRows(t)' = links']_vars

(* An anonymous submission went from pending straight to rejected, and no   *)
(* token redeems anything                                                   *)
C27_Witness ==
    \E i \in LinkIds \cap DOMAIN created :
       /\ ~created[i].isAdmin
       /\ created[i].status = "pending"
       /\ i \notin moderated
       /\ links[i].status = "rejected"
       /\ \A t \in Tokens :
             approveLinkByTokenResult(t) = 0 /\ approveLinkByTokenRows(t) = links

(* C28: only a request with a moderator session can reject a link, approve  *)
(* it by id, delete a link or a song, or list the pending queue. The same   *)
(* request without the session is refused and changes no link or song; a    *)
(* step that changes or removes an existing link or song is a moderator's   *)
(* request, a token redemption or the startup of the process.               *)
C28_ModeratorOnly ==
    [][/\ (resp' # resp /\ ~resp'.isAdmin) =>
             /\ resp'.status = 401
             /\ links' = links
             /\ songs' = songs
       /\ (resp' # resp /\ resp'.isAdmin) => resp'.status # 401
       /\ (\/ \E i \in LinkIds : i \notin DOMAIN links' \/ links'[i] # links[i]
           \/ \E x \in SongIds : x \notin DOMAIN songs' \/ songs'[x] # songs[x])
             => \/ Startup
                \/ \E t \in Tokens : RedeemToken(t)
                \/ /\ resp'.route \in {"approve", "reject", "delete-link", "delete-song"}
                   /\ resp'.isAdmin
                   /\ resp'.status = 200]_vars

(* A request to delete a song was refused for want of a session while an    *)
(* approved link and a pending link were in the store                       *)
C28_Witness ==
    /\ resp.route = "delete-song"
    /\ ~resp.isAdmin
    /\ resp.status = 401
    /\ \E i \in LinkIds : links[i].status = "approved"
    /\ \E i \in LinkIds : links[i].status = "pending"

(* C29: a notification is dispatched exactly once for every successful      *)
(* submission without a moderator session and never for a moderator's, and  *)
(* only in the step that has persisted the link row, with the id of that    *)
(* row in its payload.                                                      *)
C29_NotifiedOnce ==
    [][/\ \A i \in DOMAIN created' :
             created'[i].notified = IF created'[i].isAdmin THEN 0 ELSE 1
       /\ \A i \in (DOMAIN links') \ LinkIds :
             /\ i \in DOMAIN created'
             /\ IF created'[i].isAdmin
                THEN mail' = mail
                ELSE mail'.pc = "queued" /\ mail'.link_id = i
       /\ (mail' # mail /\ mail'.pc = "queued") =>
             /\ mail'.link_id \in (DOMAIN links') \ LinkIds
             /\ mail'.link_id \in DOMAIN created'
             /\ ~created'[mail'.link_id].isAdmin
       /\ (\E r \in Slots : reqs[r].pc = "link" /\ reqs'[r].pc = "failed") =>
             mail' = mail]_vars

(* A moderator's submission with no notification and an anonymous one with  *)
(* its notification, whose payload names the stored link                    *)
C29_Witness ==
    /\ \E i \in DOMAIN created : created[i].isAdmin /\ created[i].notified = 0
    /\ mail.pc = "queued"
    /\ mail.link_id \in LinkIds \cap DOMAIN created
    /\ created[mail.link_id].notified = 1
    /\ ~created[mail.link_id].isAdmin

(* C30: the approval url in the notification of a pending submission embeds *)
(* exactly the token stored on that link: redeeming the url's token         *)
(* approves that link, and no link that holds another token.                *)
C30_UrlCarriesLinkToken ==
    (/\ mail.pc \in {"queued", "done"}
     /\ mail.approval_url # << >>
     /\ mail.link_id \in LinkIds
     /\ links[mail.link_id].status = "pending")
       => /\ UrlToken(mail.approval_url) = links[mail.link_id].approval_token
          /\ ~TooShort(UrlToken(mail.approval_url))
          /\ mail.link_id \in TokenMatches(UrlToken(mail.approval_url))
          /\ approveLinkByTokenRows(UrlToken(mail.approval_url))[mail.link_id].status
                = "approved"
          /\ \A j \in LinkIds :
                links[j].approval_token # links[mail.link_id].approval_token =>
                   approveLinkByTokenRows(UrlToken(mail.approval_url))[j] = links[j]

(* The notified link is pending while another pending link holds another    *)
(* token                                                                    *)
C30_Witness ==
    /\ mail.pc \in {"queued", "done"}
    /\ mail.approval_url # << >>
    /\ mail.link_id \in LinkIds
    /\ links[mail.link_id].status = "pending"
    /\ \E j \in LinkIds :
          /\ links[j].status = "pending"
          /\ links[j].approval_token \in Tokens
          /\ links[j].approval_token # links[mail.link_id].approval_token

(* C31: the webhook is attempted exactly when a webhook is configured and   *)
(* no email channel (the email API key, the SMTP transporter) is            *)
(* configured; with an email channel configured the webhook is never        *)
(* called, and no event is delivered by both the webhook and an email       *)
(* channel.                                                                 *)
C31_WebhookOnlyWithoutEmail ==
    \A cfg \in Configs, out \in Outcomes :
       /\ UsesWebhook(cfg) <=> (cfg.webhook /\ ~cfg.brevoApiKey /\ ~cfg.mailTransporter)
       /\ "webhook" \in Delivered(cfg, out) =>
             Delivered(cfg, out) \cap {"brevo", "smtp"} = {}

(* C32: startup is non-destructive and idempotent. It deletes no row and    *)
(* no song, changes only the status field and only of rows whose status is  *)
(* invalid or that are pending without a token, leaves rejected links and   *)
(* pending links that hold a token unchanged, and a second startup on the   *)
(* resulting store changes nothing.                                         *)
C32_StartupIdempotent ==
    [][Startup =>
          /\ songs' = songs
          /\ DOMAIN links' = LinkIds
          /\ \A i \in LinkIds :
                /\ [links'[i] EXCEPT !.status = links[i].status] = links[i]
                /\ links'[i] # links[i] =>
                      \/ links[i].status \notin Statuses
                      \/ links[i].status = "pending" /\ NoToken(links[i])
                /\ links[i].status = "rejected" => links'[i] = links[i]
                /\ (links[i].status = "pending" /\ ~NoToken(links[i])) =>
                      links'[i] = links[i]
          /\ backfill' = links']_vars

(* After the upgrade: a row of the older server that the backfill approved  *)
(* next to a pending row that holds a token, on which a further startup     *)
(* changes nothing                                                          *)
C32_Witness ==
    /\ \E i \in LinkIds :
          /\ links[i].status = "approved"
          /\ links[i].approved_at = NoTime
    /\ \E j \in LinkIds :
          /\ links[j].status = "pending"
          /\ ~NoToken(links[j])
    /\ backfill = links

(* C33: the timestamps of one link are monotonic. added_at never changes   *)
(* after creation, and whenever approved_at is set it is not earlier than  *)
(* the link's added_at, moderator submissions included.                    *)
C33_TimestampsMonotonic ==
    [][/\ \A i \in LinkIds \cap DOMAIN links' : links'[i].added_at = links[i].added_at
       /\ \A i \in DOMAIN links' :
             links'[i].approved_at # NoTime =>
                links'[i].approved_at >= links'[i].added_at]_vars

(* C34: getPendingLinks returns exactly the links whose status is pending, *)
(* each once, ordered oldest submission first; a link leaves the result as *)
(* soon as it is approved, rejected or deleted.                            *)
C34_PendingQueue ==
    [][links' # links =>
          /\ getPendingLinksRows' # {}
          /\ \A q \in getPendingLinksRows' :
                /\ \A i \in DOMAIN links' :
                      links'[i].status = "pending" <=>
                         Cardinality({k \in DOMAIN q : q[k] = i}) = 1
                /\ \A k \in DOMAIN q : q[k] \in DOMAIN links'
                /\ \A a, b \in DOMAIN q :
                      a < b => links'[q[b]].added_at >= links'[q[a]].added_at
                /\ \A i \in getPendingLinks :
                      (i \notin DOMAIN links' \/ links'[i].status # "pending") =>
                         \A k \in DOMAIN q : q[k] # i]_vars

(* Two pending links submitted at different times: the queue has one order, *)
(* the older link first                                                    *)
C34_Witness ==
    /\ \E i, j \in getPendingLinks : links[i].added_at < links[j].added_at
    /\ Cardinality(getPendingLinksRows) = 1

(* C35: a tanach submission for (book_id, chapter) is stored with          *)
(* parasha_id = book_id and target_id = "<book_id>:<chapter>", and once    *)
(* approved it is returned by getLinksByTanach(b, c) exactly when (b, c) = *)
(* (book_id, chapter); a parasha link is stored with target_id null and a  *)
(* haftarah link with the haftarah id.                                     *)
C35_TargetsStored ==
    /\ \A t \in Targets :
          LET f == FinalTarget(t)
          IN  /\ t.target_kind = "tanach" =>
                    /\ f.parasha_id = t.book_id
                    /\ f.target_id = TanachKey(t.book_id, t.chapter)
              /\ t.target_kind = "parasha" => f.target_id = NULL
              /\ (t.target_kind = "haftarah" /\ TargetValid(t)) => f.target_id = t.target_id
    /\ \A i \in LinkIds :
          /\ links[i].target_kind = "tanach" =>
                \E b \in Books, c \in Chapters :
                   /\ links[i].parasha_id = b
                   /\ links[i].target_id = TanachKey(b, c)
                   /\ \A b2 \in ReadBooks, c2 \in ReadChapters :
                         i \in getLinksByTanach(b2, c2, DefaultStatuses) <=>
                            (links[i].status = "approved" /\ b2 = b /\ c2 = c)
          /\ links[i].target_kind = "parasha" => links[i].target_id = NULL
          /\ links[i].target_kind = "haftarah" =>
                links[i].target_id \in HaftarotDiaspora(links[i].parasha_id)

(* Two approved tanach links of different chapters of one book, each read  *)
(* under its own chapter only                                              *)
C35_Witness ==
    \E i, j \in LinkIds :
       /\ getLinksByTanach("bereshit", 1, DefaultStatuses) = {i}
       /\ getLinksByTanach("bereshit", 2, DefaultStatuses) = {j}
       /\ links[i].parasha_id = "bereshit"
       /\ links[j].status = "approved"

(* C36: a haftarah submission is accepted whenever its target id is one of *)
(* the named portion's known haftarah ids, whichever locale list of that   *)
(* portion (diaspora or israel) contains it: no request for such a target  *)
(* is refused.                                                             *)
C36_HaftarahOfEitherLocale ==
    [][\A r \in Slots, t \in Targets :
          SubmitInvalid(r, t) =>
             ~(/\ t.target_kind = "haftarah"
               /\ t.parasha_id \in KnownParshiot
               /\ t.target_id \in HaftarotDiaspora(t.parasha_id)
                                     \cup HaftarotIsrael(t.parasha_id))]_vars

(* C37: a link's approval_token is assigned only at creation. No operation *)
(* changes a token to a different non-null value, and a link without a     *)
(* token (never given one, or cleared by redemption, approve or reject)    *)
(* never holds one again.                                                  *)
C37_TokenOnlyAtCreation ==
    [][links' # links =>
          \A i \in LinkIds \cap DOMAIN links' :
             \/ links'[i].approval_token = links[i].approval_token
             \/ links'[i].approval_token = NULL]_vars

(* A link that was created pending with a token and whose token a          *)
(* moderation decision has cleared                                         *)
C37_Witness ==
    \E i \in LinkIds \cap DOMAIN created :
       /\ created[i].status = "pending"
       /\ links[i].status \in {"approved", "rejected"}
       /\ links[i].approval_token = NULL
       /\ \E j \in LinkIds : links[j].approval_token \in Tokens

(* C38: getLinksByParasha(key) with no target_kind filter returns only     *)
(* parasha and haftarah links of that portion: a tanach link is never      *)
(* returned by a parasha read, even when its book id equals the key.       *)
C38_ParashaReadSkipsTanach ==
    \A key \in ReadKeys :
       \A i \in getLinksByParasha(key, NULL, DefaultStatuses) :
          links[i].target_kind \in {"parasha", "haftarah"}

(* C39: redeeming an empty, null or absent token, and through the HTTP     *)
(* handler any token shorter than 10 characters, returns no match and      *)
(* changes no link; no redemption approves a link whose approval_token is  *)
(* null.                                                                   *)
C39_NoTokenNoMatch ==
    [][/\ \A t \in {"", NULL} :
             /\ approveLinkByTokenRows(t) = links
             /\ approveLinkByTokenResultOn(TRUE, t) = 0
             /\ approveLinkByTokenResultOn(FALSE, t) = 0
       /\ \A t \in ShortTokens :
             RedeemToken(t) => links' = links /\ resp'.status = 400
       /\ \A t \in Tokens \cup ShortTokens :
             RedeemToken(t) =>
                \A i \in LinkIds :
                   links[i].approval_token = NULL => links'[i] = links[i]]_vars

(* The empty token was turned away while a rejected link without a token   *)
(* and a pending link with one were in the store                           *)
C39_Witness ==
    /\ resp.route = "redeem"
    /\ resp.token = ""
    /\ resp.status = 400
    /\ \E i \in LinkIds : links[i].status = "rejected" /\ links[i].approval_token = NULL
    /\ \E j \in LinkIds : links[j].status = "pending" /\ links[j].approval_token \in Tokens

====
